---- MODULE Spec2Model ----
(***************************************************************************)
(* tuya-tiny-web (src/tuya_tiny_web/main.py): a Flask gateway over the    *)
(* module-level globals `devices`, `scan_lock` and `scanning`.            *)
(*                                                                         *)
(* Threads.  app.run(threaded=True) serves every HTTP request on a thread  *)
(* of its own, and the before_request hook `startup` starts one more      *)
(* scan_devices_periodically thread for every request.  Request number r   *)
(* is served by thread <<"h", r>> and starts thread <<"p", r>>.            *)
(* A step of the model is one access to shared state (a global read or    *)
(* write, the lock, the catalog file, a device call); CPython may switch  *)
(* threads between any two of them.                                        *)
(*                                                                         *)
(* History: the fields `busy` and `overlap` of req[h] (what was going on   *)
(* when the request arrived), its field `known` (the address a completed   *)
(* scan had recorded for the device when the resolve began), and the       *)
(* counters nscans and nedits.                                             *)
(***************************************************************************)
EXTENDS Naturals, Sequences, FiniteSets, TLC

VARIABLES
    file,       \* content of the catalog file named by devices_file
    devices,    \* global `devices` (line 14)
    scan_lock,  \* global `scan_lock` (line 15): TRUE when held
    scanning,   \* global `scanning` (line 16)
    pc,         \* per thread: the line it is about to execute
    req,        \* per handler: the request it serves
    results,    \* per thread: local `results` of scan_devices (line 43)
    idx,        \* per thread: position of the loop of line 46 in results
    ret,        \* per thread: what scan_devices returned or raised
    handle,     \* per handler: the OutletDevice get_device_instance built
    devcalls,   \* per handler: the device calls it has made
    resp,       \* per handler: the HTTP response
    power,      \* per device id: the outlet's switch (dps "1")
    nscans,     \* history: discoveries started so far
    nedits      \* history: edits of the catalog file so far

vars == <<file, devices, scan_lock, scanning, pc, req, results, idx, ret,
          handle, devcalls, resp, power, nscans, nedits>>

(* ------------------------------ bounds -------------------------------- *)

\* HTTP requests served in a behaviour (each also starts a periodic thread)
MaxRequests == 2
\* discoveries (line 43) started in a behaviour
MaxScans == 2
\* edits of the catalog file in a behaviour
MaxEdits == 1

(* --------------------------- the catalog ------------------------------ *)

NoIp == "none"          \* the entry has no "ip" key (dict.get gives None)

EmptyMap == [d \in {} |-> NoIp]

DevIds == {"A", "B"}
ScanIp == "10.0.0.5"    \* where discovery sees a device that answers

Entry(n, i, k) == [name |-> n, ip |-> i, local_key |-> k]

\* two versions of the file: "A" with a seeded "ip" key; then the seed
\* removed and "B" added under the same display name
Cat0 == [d \in {"A"} |-> Entry("lamp", "10.0.0.9", "kA")]
Cat1 == [d \in {"A", "B"} |->
            IF d = "A" THEN Entry("lamp", NoIp, "kA")
                       ELSE Entry("lamp", NoIp, "kB")]

\* order of the entries in the file (a Python dict keeps insertion order)
IdOrder == <<"A", "B">>

\* the file: json.load either gives a catalog or it (or open) raises
GoodFile(c) == [ok |-> TRUE, cat |-> c]
BadFile == [ok |-> FALSE, cat |-> EmptyMap]  \* missing, unreadable, not JSON
GoodFiles == {GoodFile(Cat0), GoodFile(Cat1)}
Files == GoodFiles \cup {BadFile}

\* what a request may name: a device id (of one catalog or of both) or a
\* display name
Idents == {"A", "B", "lamp"}

Kinds == {"scan", "toggle"}

(* ------------------------------ threads ------------------------------- *)

Handlers == {<<"h", r>> : r \in 1..MaxRequests}
Periodics == {<<"p", r>> : r \in 1..MaxRequests}
Threads == Handlers \cup Periodics

IsHandler(t) == t[1] = "h"

NoReq == [kind |-> "none", ident |-> "none", busy |-> FALSE, overlap |-> FALSE,
          known |-> "none"]
NoRet == [kind |-> "none"]
RetFalse == [kind |-> "false"]
RetRaise(e) == [kind |-> "raise", exc |-> e]
RetMap(m) == [kind |-> "map", map |-> m]
NoHandle == [id |-> "none"]
NoResp == [code |-> 0, body |-> "none", exc |-> "none"]

\* a thread between the claim of line 40 and the end of the finally of line 53
InScan(t) == pc[t] \in {"s43", "s48", "s49", "s51", "s53"}
\* a handler inside `with scan_lock` (lines 71-76)
InWith(t) == IsHandler(t) /\ req[t].kind = "scan"
                /\ (pc[t] \in {"s38", "s40", "m73"} \/ InScan(t))

Init ==
    /\ file = GoodFile(Cat0)
    /\ devices = file.cat                   \* main(): load_devices(), line 161
    /\ scan_lock = FALSE
    /\ scanning = FALSE
    /\ pc = [t \in Threads |-> "idle"]
    /\ req = [t \in Handlers |-> NoReq]
    /\ results = [t \in Threads |-> <<>>]
    /\ idx = [t \in Threads |-> 0]
    /\ ret = [t \in Threads |-> NoRet]
    /\ handle = [t \in Handlers |-> NoHandle]
    /\ devcalls = [t \in Handlers |-> <<>>]
    /\ resp = [t \in Handlers |-> NoResp]
    /\ power = [d \in DevIds |-> FALSE]
    /\ nscans = 0
    /\ nedits = 0

(* ------------------------- the environment --------------------------- *)

\* Somebody edits, breaks or repairs the catalog file.
EditFile ==
    /\ nedits < MaxEdits
    /\ nedits' = nedits + 1
    /\ \E f \in Files \ {file} : file' = f
    /\ UNCHANGED <<devices, scan_lock, scanning, pc, req, results, idx, ret,
                   handle, devcalls, resp, power, nscans>>

(* --------------------------- load_devices ----------------------------- *)

\* load_devices (lines 18-21): open or json.load raises on file f
LoadRaises(f) == ~f.ok

\* a bug load_devices does not have: the global is emptied before parsing
LoadedCleared(devs, f) == IF LoadRaises(f) THEN EmptyMap ELSE f.cat

\* load_devices (lines 18-21): the global `devices` after a call that found
\* f in the file, devs being its value before: the assignment of line 21
\* is reached only when json.load returned.  Reading the file and binding
\* the global are one step of the model.
Loaded(devs, f) == IF LoadRaises(f) THEN devs ELSE f.cat

(* --------------------------- scan_devices ----------------------------- *)

\* results of tinytuya.deviceScan (line 43): device records in the order the
\* loop of line 46 visits them, keyed by the id each carries
Seen(d) == [id |-> d, ip |-> ScanIp]
ScanResults == {<<>>, <<Seen("A")>>, <<Seen("A"), Seen("B")>>}

ResultIds(rs) == {rs[k].id : k \in 1..Len(rs)}

\* where the caller of scan_devices goes on with outcome r: manual_scan at
\* line 73; the periodic loop at line 59 (the model's "p57" is the sleeping
\* thread about to read line 57 again), or nowhere when the call raised
\* (nothing in scan_devices_periodically catches: the thread ends)
AfterScan(t, r) ==
    IF IsHandler(t) THEN "m73"
    ELSE IF r.kind = "raise" THEN "dead" ELSE "p57"

\* the thread leaves scan_devices with outcome r; a periodic thread drops it
Leave(t, r) ==
    /\ pc' = [pc EXCEPT ![t] = AfterScan(t, r)]
    /\ ret' = [ret EXCEPT ![t] = IF IsHandler(t) THEN r ELSE NoRet]
    /\ IF IsHandler(t)
         THEN UNCHANGED <<results, idx>>
         ELSE /\ results' = [results EXCEPT ![t] = <<>>]
              /\ idx' = [idx EXCEPT ![t] = 0]

\* the thread raises e inside the try of line 42: the finally is next
Raise(t, e) ==
    /\ pc' = [pc EXCEPT ![t] = "s53"]
    /\ ret' = [ret EXCEPT ![t] = RetRaise(e)]

\* line 46: the loop goes on at element k of rs, or is over
LoopPc(rs, k) == IF k <= Len(rs) THEN "s48" ELSE "s51"

\* lines 38-39: `if scanning: return False` (before the try: no finally)
S38(t) ==
    /\ pc[t] = "s38"
    /\ IF scanning
         THEN Leave(t, RetFalse)
         ELSE /\ pc' = [pc EXCEPT ![t] = "s40"]
              /\ UNCHANGED <<ret, results, idx>>
    /\ UNCHANGED <<file, devices, scan_lock, scanning, req, handle, devcalls,
                   resp, power,
                   nscans, nedits>>

\* line 40: scanning = True, and the discovery of line 43 begins
S40(t) ==
    /\ pc[t] = "s40"
    /\ nscans < MaxScans
    /\ nscans' = nscans + 1
    /\ scanning' = TRUE
    /\ pc' = [pc EXCEPT ![t] = "s43"]
    /\ UNCHANGED <<file, devices, scan_lock, req, results, idx, ret, handle,
                   devcalls, resp, power, nedits>>

\* line 43: tinytuya.deviceScan is in flight while pc[t] = "s43".  It raises
\* (a socket error), or it returns rs and line 45, load_devices(), is the
\* thread's next access to shared state
S43(t) ==
    /\ pc[t] = "s43"
    /\ \/ /\ Raise(t, "OSError")
          /\ UNCHANGED <<devices, results, idx>>
       \/ \E rs \in ScanResults :
            /\ results' = [results EXCEPT ![t] = rs]
            /\ devices' = Loaded(devices, file)
            /\ IF LoadRaises(file)
                 THEN /\ Raise(t, "CatalogLoadError")
                      /\ UNCHANGED idx
                 ELSE /\ idx' = [idx EXCEPT ![t] = 1]
                      /\ pc' = [pc EXCEPT ![t] = LoopPc(rs, 1)]
                      /\ UNCHANGED ret
    /\ UNCHANGED <<file, scan_lock, scanning, req, handle, devcalls, resp,
                   power,
                   nscans, nedits>>

\* line 48: `if dev_id in devices`
InCatalog(devs, d) == d \in DOMAIN devs

\* lines 47-48: the element's id is looked up in the global
S48(t) ==
    /\ pc[t] = "s48"
    /\ IF InCatalog(devices, results[t][idx[t]].id)
         THEN /\ pc' = [pc EXCEPT ![t] = "s49"]
              /\ UNCHANGED idx
         ELSE /\ idx' = [idx EXCEPT ![t] = idx[t] + 1]
              /\ pc' = [pc EXCEPT ![t] = LoopPc(results[t], idx[t] + 1)]
    /\ UNCHANGED <<file, devices, scan_lock, scanning, req, results, ret,
                   handle, devcalls, resp, power,
                   nscans, nedits>>

\* a bug line 49 does not have: an address already recorded is kept
MergeKeepFirst(devs, d, i) ==
    IF devs[d].ip = NoIp THEN [devs EXCEPT ![d].ip = i] ELSE devs

\* line 49: devices[dev_id]["ip"] = dev["ip"]
Merge(devs, d, i) == [devs EXCEPT ![d].ip = i]

\* line 49: the global is read again; KeyError when a reload in between
\* dropped the id
S49(t) ==
    /\ pc[t] = "s49"
    /\ LET d == results[t][idx[t]].id
           i == results[t][idx[t]].ip
       IN IF d \in DOMAIN devices
            THEN /\ devices' = Merge(devices, d, i)
                 /\ idx' = [idx EXCEPT ![t] = idx[t] + 1]
                 /\ pc' = [pc EXCEPT ![t] = LoopPc(results[t], idx[t] + 1)]
                 /\ UNCHANGED ret
            ELSE /\ Raise(t, "KeyError")
                 /\ UNCHANGED <<devices, idx>>
    /\ UNCHANGED <<file, scan_lock, scanning, req, results, handle, devcalls,
                   resp, power,
                   nscans, nedits>>

\* line 51: {dev_id: devices[dev_id] for dev_id in results}
Report(devs, rs) == [d \in ResultIds(rs) |-> devs[d]]

\* line 51: KeyError when a key of results is no key of devices
S51(t) ==
    /\ pc[t] = "s51"
    /\ pc' = [pc EXCEPT ![t] = "s53"]
    /\ ret' = [ret EXCEPT ![t] =
                 IF ResultIds(results[t]) \subseteq DOMAIN devices
                   THEN RetMap(Report(devices, results[t]))
                   ELSE RetRaise("KeyError")]
    /\ UNCHANGED <<file, devices, scan_lock, scanning, req, results, idx,
                   handle, devcalls, resp, power,
                   nscans, nedits>>

\* a bug scan_devices does not have: the reset of line 53 outside a finally,
\* so that a scan that raised leaves the flag as it was
FlagAfterNoFinally(r) == r.kind = "raise"

\* lines 52-53: `finally: scanning = False`, the flag after outcome r
FlagAfter(r) == FALSE

\* lines 52-53, then the return or the raise reaches the caller
S53(t) ==
    /\ pc[t] = "s53"
    /\ scanning' = FlagAfter(ret[t])
    /\ Leave(t, ret[t])
    /\ UNCHANGED <<file, devices, scan_lock, req, handle, devcalls, resp,
                   power,
                   nscans, nedits>>

(* --------------------- scan_devices_periodically ---------------------- *)

\* lines 57-59: time.sleep(300) is over and `if not scanning` is read; a
\* thread that finds the flag set goes back to sleep
P57(t) ==
    /\ pc[t] = "p57"
    /\ pc' = [pc EXCEPT ![t] = IF scanning THEN "p57" ELSE "s38"]
    /\ UNCHANGED <<file, devices, scan_lock, scanning, req, results, idx, ret,
                   handle, devcalls, resp, power,
                   nscans, nedits>>

(* ------------------ startup and the request dispatcher ---------------- *)

\* the first line of the view that serves a request of kind k
FirstPc(k) == IF k = "scan" THEN "m68" ELSE "g25"

\* Request number h[2] arrives.  startup (lines 61-64) runs before the view
\* and starts one more scan_devices_periodically thread.
Request(h) ==
    /\ pc[h] = "idle"
    /\ IF h[2] = 1 THEN TRUE ELSE pc[<<"h", h[2] - 1>>] # "idle"
    /\ \E k \in Kinds :
         \E i \in (IF k = "scan" THEN {"none"} ELSE Idents) :
            /\ req' = [req EXCEPT ![h] =
                  [kind |-> k, ident |-> i,
                   busy |-> \E t \in Threads : InScan(t),
                   overlap |-> k = "scan" /\ \E g \in Handlers :
                                  /\ req[g].kind = "scan"
                                  /\ pc[g] \notin {"idle", "done"},
                   known |-> NoIp]]
            /\ pc' = [pc EXCEPT ![h] = FirstPc(k), ![<<"p", h[2]>>] = "p57"]
    /\ UNCHANGED <<file, devices, scan_lock, scanning, results, idx, ret,
                   handle, devcalls, resp, power,
                   nscans, nedits>>

(* ------------------------------ responses ---------------------------- *)

BusyResp == [code |-> 400, body |-> "Scan is already in progress", exc |-> "none"]
FailedResp ==
    [code |-> 500, body |-> "Scan already in progress or failed", exc |-> "none"]
\* Flask answers an exception no view caught with 500
UncaughtResp(e) == [code |-> 500, body |-> "Internal Server Error", exc |-> e]
ScanResp == [code |-> 200, body |-> "devices", exc |-> "none"]
\* `except Exception as e` of the views (lines 103-104, 127-128)
ErrorResp(e) == [code |-> 500, body |-> "error", exc |-> e]
OkResp(b) == [code |-> 200, body |-> b, exc |-> "none"]

\* The handler answers r and its thread ends: its locals are gone.  What
\* stays of the request is its kind, for a scan what was going on when it
\* arrived, the device calls made for it and the answer.
Answer(h, r) ==
    /\ resp' = [resp EXCEPT ![h] = r]
    /\ pc' = [pc EXCEPT ![h] = "done"]
    /\ req' = [req EXCEPT ![h].ident = "none", ![h].known = NoIp,
                          ![h].busy = @ /\ req[h].kind = "scan"]
    /\ handle' = [handle EXCEPT ![h] = NoHandle]
    /\ ret' = [ret EXCEPT ![h] = NoRet]
    /\ results' = [results EXCEPT ![h] = <<>>]
    /\ idx' = [idx EXCEPT ![h] = 0]

(* ----------------------------- manual_scan ---------------------------- *)

\* lines 68-69: `if scan_lock.locked()`
M68(h) ==
    /\ pc[h] = "m68"
    /\ IF scan_lock
         THEN Answer(h, BusyResp)
         ELSE /\ pc' = [pc EXCEPT ![h] = "m71"]
              /\ UNCHANGED <<resp, req, handle, ret, results, idx>>
    /\ UNCHANGED <<file, devices, scan_lock, scanning, devcalls, power,
                   nscans, nedits>>

\* line 71 as it would be if the with did not wait for the holder
M71NoWait(h) ==
    /\ pc[h] = "m71"
    /\ scan_lock' = TRUE
    /\ pc' = [pc EXCEPT ![h] = "s38"]
    /\ UNCHANGED <<file, devices, scanning, req, results, idx, ret, handle,
                   devcalls, resp, power, nscans, nedits>>

\* line 71: `with scan_lock` acquires, waiting while another thread holds it
M71(h) ==
    /\ pc[h] = "m71"
    /\ ~scan_lock
    /\ scan_lock' = TRUE
    /\ pc' = [pc EXCEPT ![h] = "s38"]       \* line 72: scan_devices()
    /\ UNCHANGED <<file, devices, scanning, req, results, idx, ret, handle,
                   devcalls, resp, power, nscans, nedits>>

\* lines 73-76: `if scan_result` (False and the empty dict are both falsy);
\* an exception of scan_devices passes through the with and the view
ScanResponse(r) ==
    IF r.kind = "raise" THEN UncaughtResp(r.exc)
    ELSE IF r.kind = "map" /\ r.map # EmptyMap THEN ScanResp
    ELSE FailedResp

\* lines 73-76 and the end of the with: the lock is released on every exit
M73(h) ==
    /\ pc[h] = "m73"
    /\ scan_lock' = FALSE
    /\ Answer(h, ScanResponse(ret[h]))
    /\ UNCHANGED <<file, devices, scanning, devcalls, power, nscans,
                   nedits>>

(* ------------------------- get_device_instance ------------------------ *)

\* lines 26-34 on the catalog devs: the OutletDevice built for dev_id, or
\* the exception raised
Resolve(devs, dev_id) ==
    IF dev_id \notin DOMAIN devs THEN [err |-> "KeyError"]
    ELSE IF devs[dev_id].ip = NoIp THEN [err |-> "RuntimeError"]
    ELSE [err |-> "none", id |-> dev_id, ip |-> devs[dev_id].ip,
          local_key |-> devs[dev_id].local_key, version |-> "3.4"]

\* the "ip" of entry d of devs, NoIp when there is no entry or no "ip"
Ip(devs, d) == IF d \in DOMAIN devs THEN devs[d].ip ELSE NoIp

\* history: the address discovery recorded for d, when every scan that began
\* has completed (catalog seeds are never ScanIp: only line 49 writes it)
Located(d) ==
    IF Ip(devices, d) = ScanIp /\ \A t \in Threads : ~InScan(t)
      THEN ScanIp ELSE NoIp

\* get_device_instance as it would be if it took scan_lock for its reload
G25Locked(h) ==
    /\ pc[h] = "g25"
    /\ ~scan_lock
    /\ devices' = Loaded(devices, file)
    /\ IF LoadRaises(file)
         THEN Answer(h, ErrorResp("CatalogLoadError"))
         ELSE /\ pc' = [pc EXCEPT ![h] = "g26"]
              /\ req' = [req EXCEPT ![h].known = Located(req[h].ident)]
              /\ UNCHANGED <<resp, handle, ret, results, idx>>
    /\ UNCHANGED <<file, scan_lock, scanning, devcalls, power,
                   nscans, nedits>>

\* line 25: load_devices() at the head of get_device_instance; no lock is
\* taken, here or further down the view
G25(h) ==
    /\ pc[h] = "g25"
    /\ devices' = Loaded(devices, file)
    /\ IF LoadRaises(file)
         THEN Answer(h, ErrorResp("CatalogLoadError"))
         ELSE /\ pc' = [pc EXCEPT ![h] = "g26"]
              /\ req' = [req EXCEPT ![h].known = Located(req[h].ident)]
              /\ UNCHANGED <<resp, handle, ret, results, idx>>
    /\ UNCHANGED <<file, scan_lock, scanning, devcalls, power,
                   nscans, nedits>>

\* lines 26-34: one read of the global; the rest works on the entry read
G26(h) ==
    /\ pc[h] = "g26"
    /\ LET d == Resolve(devices, req[h].ident)
       IN IF d.err # "none"
            THEN Answer(h, ErrorResp(d.err))
            ELSE /\ handle' = [handle EXCEPT ![h] = d]
                 /\ pc' = [pc EXCEPT ![h] = "d_status"]    \* line 119
                 /\ UNCHANGED <<resp, req, ret, results, idx>>
    /\ UNCHANGED <<file, devices, scan_lock, scanning, devcalls, power,
                   nscans, nedits>>

(* ------------------------------- toggle ------------------------------- *)

\* the branches of `if current` taken the wrong way round
ToggleCallSwapped(current) == IF current THEN "d_on" ELSE "d_off"

\* lines 121-126: `if current` picks d.turn_off(), else d.turn_on()
ToggleCall(current) == IF current THEN "d_off" ELSE "d_on"

\* lines 119-121: d.status() answers with the switch, answers without it
\* (an error payload: .get("1") is None) or raises
DStatus(h) ==
    /\ pc[h] = "d_status"
    /\ devcalls' = [devcalls EXCEPT ![h] = Append(@, "status")]
    /\ \/ \E current \in {power[handle[h].id], FALSE} :
            /\ pc' = [pc EXCEPT ![h] = ToggleCall(current)]
            /\ UNCHANGED <<resp, req, handle, ret, results, idx>>
       \/ Answer(h, ErrorResp("DeviceError"))
    /\ UNCHANGED <<file, devices, scan_lock, scanning, power,
                   nscans, nedits>>

\* lines 125-126: d.turn_on(); the outlet switches, or the
\* command is lost on the way (the result is not looked at), or it raises
DOn(h) ==
    /\ pc[h] = "d_on"
    /\ devcalls' = [devcalls EXCEPT ![h] = Append(@, "turn_on")]
    /\ \/ /\ \E p \in {TRUE, power[handle[h].id]} :
                power' = [power EXCEPT ![handle[h].id] = p]
          /\ Answer(h, OkResp("Device toggled ON"))
       \/ /\ Answer(h, ErrorResp("DeviceError"))
          /\ UNCHANGED power
    /\ UNCHANGED <<file, devices, scan_lock, scanning, nscans,
                   nedits>>

\* lines 122-123: d.turn_off()
DOff(h) ==
    /\ pc[h] = "d_off"
    /\ devcalls' = [devcalls EXCEPT ![h] = Append(@, "turn_off")]
    /\ \/ /\ \E p \in {FALSE, power[handle[h].id]} :
                power' = [power EXCEPT ![handle[h].id] = p]
          /\ Answer(h, OkResp("Device toggled OFF"))
       \/ /\ Answer(h, ErrorResp("DeviceError"))
          /\ UNCHANGED power
    /\ UNCHANGED <<file, devices, scan_lock, scanning, nscans,
                   nedits>>

(* --------------------------- specification ---------------------------- *)

Next ==
    \/ EditFile
    \/ \E h \in Handlers : Request(h)
    \/ \E h \in Handlers : M68(h)
    \/ \E h \in Handlers : M71(h)
    \/ \E h \in Handlers : M73(h)
    \/ \E h \in Handlers : G25(h)
    \/ \E h \in Handlers : G26(h)
    \/ \E h \in Handlers : DStatus(h)
    \/ \E h \in Handlers : DOn(h)
    \/ \E h \in Handlers : DOff(h)
    \/ \E t \in Periodics : P57(t)
    \/ \E t \in Threads : S38(t)
    \/ \E t \in Threads : S40(t)
    \/ \E t \in Threads : S43(t)
    \/ \E t \in Threads : S48(t)
    \/ \E t \in Threads : S49(t)
    \/ \E t \in Threads : S51(t)
    \/ \E t \in Threads : S53(t)

Spec == Init /\ [][Next]_vars

(* ------------------------------- claims ------------------------------- *)

\* thread t takes a step
Stepped(t) == pc'[t] # pc[t] \/ idx'[t] # idx[t]

\* the threads inside tinytuya.deviceScan
InDiscovery == {t \in Threads : pc[t] = "s43"}

\* C1: at most one execution of the discovery primitive is in flight, under
\* any interleaving of POST /scan handlers and periodic scanner threads.
C1_AtMostOneScan == Cardinality(InDiscovery) <= 1

\* C2: a POST /scan that arrives while a scan is in progress is answered
\* with the busy outcome, HTTP 400, and with no other status.
C2_BusySignal ==
    \A h \in Handlers :
        (pc[h] = "done" /\ req[h].kind = "scan" /\ req[h].busy)
            => resp[h] = BusyResp

\* C3: of two POST /scan requests of which the second starts while the
\* first is still running, never both run a scan and merge: one of the two
\* is answered busy.
C3_NeverTwoMerges ==
    \A h1 \in Handlers : \A h2 \in Handlers \ {h1} :
        (/\ pc[h1] = "done" /\ req[h1].kind = "scan"
         /\ pc[h2] = "done" /\ req[h2].kind = "scan" /\ req[h2].overlap)
            => ~(resp[h1] = ScanResp /\ resp[h2] = ScanResp)

\* C4: once every scan that claimed the flag has finished, by a return or by
\* an exception, the scanning flag is false; and once no handler is inside
\* `with scan_lock`, the lock is free: nothing is left to refuse a later scan.
C4_FlagRelease ==
    /\ (\A t \in Threads : ~InScan(t)) => ~scanning
    /\ (\A h \in Handlers : ~InWith(h)) => ~scan_lock

\* C4 witness: a manual scan raised, its handler has answered, no scan is in
\* flight, and flag and lock are free.
C4_Witness ==
    /\ \E h \in Handlers : pc[h] = "done" /\ resp[h].body = "Internal Server Error"
    /\ \A t \in Threads : ~InScan(t)
    /\ ~scanning /\ ~scan_lock

\* thread t executes line 49 for device id d
MergeOf(t, d) ==
    pc[t] = "s49" /\ Stepped(t) /\ results[t][idx[t]].id = d

\* C5: an address that a scan recorded for a device changes only when a scan
\* observes that device: no request, no reload and no other scan alters it.
C5_LocationPersistence ==
    [][\A d \in DevIds :
          (Ip(devices, d) = ScanIp /\ Ip(devices', d) # Ip(devices, d))
              => \E t \in Threads : MergeOf(t, d)]_vars

\* C6: when a completed scan has recorded an address for a device id of the
\* catalog, the next resolve of that id gives a handle with that address; and
\* a resolve works on the catalog file as it is when the resolve loads it.
C6_FreshResolution ==
    [][\A h \in Handlers :
          /\ (pc[h] = "g25" /\ Stepped(h) /\ file.ok) => devices' = file.cat
          /\ (/\ pc[h] = "g26" /\ Stepped(h)
              /\ req[h].known # NoIp
              /\ req[h].ident \in DOMAIN devices)
                 => (pc'[h] = "d_status" /\ handle'[h].ip = req[h].known)]_vars

\* position of the first entry of devs, in file order, named n (0: none)
FirstNamed(devs, n) ==
    LET at == {k \in 1..Len(IdOrder) :
                  IdOrder[k] \in DOMAIN devs /\ devs[IdOrder[k]].name = n}
    IN IF at = {} THEN 0 ELSE CHOOSE k \in at : \A j \in at : k <= j

\* the device id an identifier stands for: a device id as itself, else the
\* first entry with that display name ("none": no entry)
Target(devs, x) ==
    IF x \in DOMAIN devs THEN x
    ELSE IF FirstNamed(devs, x) = 0 THEN "none"
    ELSE IdOrder[FirstNamed(devs, x)]

\* C7: resolve of the device id and resolve of the display name of a catalog
\* entry with a recorded address both give a handle for that device at that
\* address, the first entry winning among equal names.
C7_BothIdentifierForms ==
    [][\A h \in Handlers :
          LET d == Target(devices, req[h].ident)
          IN (pc[h] = "g26" /\ Stepped(h) /\ d # "none" /\ Ip(devices, d) # NoIp)
                => /\ pc'[h] = "d_status"
                   /\ handle'[h].id = d
                   /\ handle'[h].ip = Ip(devices, d)]_vars

\* C8: resolve of an identifier that matches no catalog entry fails with
\* KeyError (not found); resolve of an identifier of the catalog without a
\* recorded address fails with RuntimeError (unreachable); neither makes a
\* device call.
C8_ResolverErrorKinds ==
    [][\A h \in Handlers :
          LET d == Target(devices, req[h].ident)
          IN (pc[h] = "g26" /\ Stepped(h))
                => /\ d = "none" => resp'[h] = ErrorResp("KeyError")
                   /\ (d # "none" /\ Ip(devices, d) = NoIp)
                         => resp'[h] = ErrorResp("RuntimeError")
                   /\ resp'[h].exc \in {"KeyError", "RuntimeError"}
                         => devcalls'[h] = <<>>]_vars

\* C9: the merge creates no entry for a discovered id that is not in the
\* catalog (an entry appears only when load_devices runs) and overwrites the
\* recorded ip of a discovered id that is, leaving the other entries alone.
C9_MergeCorrectness ==
    [][/\ \A d \in DevIds :
             (d \notin DOMAIN devices /\ d \in DOMAIN devices')
                 => \E t \in Threads : pc[t] \in {"g25", "s43"} /\ Stepped(t)
       /\ \A t \in Threads :
             (pc[t] \in {"s48", "s49"} /\ Stepped(t))
                 => LET e == results[t][idx[t]]
                    IN /\ e.id \notin DOMAIN devices => devices' = devices
                       /\ (pc[t] = "s49" /\ e.id \in DOMAIN devices)
                             => /\ DOMAIN devices' = DOMAIN devices
                                /\ devices'[e.id] =
                                      [devices[e.id] EXCEPT !.ip = e.ip]
                                /\ \A o \in DOMAIN devices \ {e.id} :
                                      devices'[o] = devices[o]]_vars

\* C9 witness: a scan that saw "A" and "B" has finished its loop; the seeded
\* address of "A" is overwritten and "B", not in the catalog, has no entry.
C9_Witness ==
    \E t \in Threads :
        /\ pc[t] = "s51" /\ Len(results[t]) = 2
        /\ file = GoodFile(Cat0)
        /\ DOMAIN devices = {"A"} /\ devices["A"].ip = ScanIp

\* C10: a load_devices that fails leaves the catalog in memory as it was and
\* the failure reaches the caller: the request is answered with the error,
\* the scan goes to its finally with the exception.
C10_ReloadAtomicity ==
    [][\A t \in Threads :
          (pc[t] \in {"g25", "s43"} /\ Stepped(t) /\ LoadRaises(file))
              => /\ devices' = devices
                 /\ pc[t] = "g25" => resp'[t] = ErrorResp("CatalogLoadError")
                 /\ pc[t] = "s43" => (pc'[t] = "s53" /\ ret'[t].kind = "raise")]_vars

\* C10 witness: a request was answered with the load failure, the file is
\* still broken and the catalog in memory still holds its entries.
C10_Witness ==
    /\ \E h \in Handlers : resp[h] = ErrorResp("CatalogLoadError")
    /\ LoadRaises(file)
    /\ devices = Cat0

\* the threads running the loop of scan_devices_periodically
PeriodicRunning == {t \in Periodics : pc[t] \notin {"idle", "dead"}}

\* C11: from the first request on, whatever the number of requests served,
\* exactly one thread is running the periodic scan loop.
C11_ExactlyOnePeriodic ==
    (\E h \in Handlers : pc[h] # "idle") => Cardinality(PeriodicRunning) = 1

\* C12: the process serves no request once a periodic scanner has died of a
\* failure: no request is dispatched in a state where a scan loop is dead.
C12_FatalPeriodicFailure ==
    [][\A h \in Handlers :
          (pc[h] = "idle" /\ pc'[h] # "idle")
              => \A t \in Periodics : pc[t] # "dead"]_vars

\* C13: a toggle reads the status once; it sends turn_off, and nothing else,
\* only after a status that showed the switch on, and answers "toggled OFF";
\* after a status with a falsy switch it sends turn_on, and nothing else, and
\* answers "toggled ON"; the command moves the switch to the state of its
\* name or leaves it.
C13_Toggle ==
    [][\A h \in Handlers :
          /\ (pc[h] = "d_status" /\ Stepped(h)) =>
                /\ devcalls'[h] = <<"status">>
                /\ pc'[h] \in {"d_on", "d_off", "done"}
                /\ pc'[h] = "d_off" => power[handle[h].id]
                /\ ~power[handle[h].id] => pc'[h] # "d_off"
                /\ pc'[h] = "done" => resp'[h].code = 500
                /\ power' = power
          /\ (pc[h] = "d_on" /\ Stepped(h)) =>
                /\ devcalls'[h] = <<"status", "turn_on">>
                /\ pc'[h] = "done"
                /\ resp'[h] \in {OkResp("Device toggled ON"),
                                 ErrorResp("DeviceError")}
                /\ \A d \in DevIds :
                      power'[d] # power[d] => d = handle[h].id /\ power'[d]
          /\ (pc[h] = "d_off" /\ Stepped(h)) =>
                /\ devcalls'[h] = <<"status", "turn_off">>
                /\ pc'[h] = "done"
                /\ resp'[h] \in {OkResp("Device toggled OFF"),
                                 ErrorResp("DeviceError")}
                /\ \A d \in DevIds :
                      power'[d] # power[d] => d = handle[h].id /\ ~power'[d]]_vars

\* two toggles in a row of a device that follows the commands: the first
\* switched it on, the second saw it on and switched it off again
C13_Witness ==
    \E h1 \in Handlers : \E h2 \in Handlers \ {h1} :
        /\ resp[h1] = OkResp("Device toggled ON")
        /\ devcalls[h1] = <<"status", "turn_on">>
        /\ resp[h2] = OkResp("Device toggled OFF")
        /\ devcalls[h2] = <<"status", "turn_off">>
        /\ \A d \in DevIds : ~power[d]

\* C14: a POST /scan that claimed the flag and whose discovery and catalog
\* load did not raise answers with the discovered devices map, whatever
\* discovery found: nothing, or ids the catalog does not have.
C14_ScanSuccessOutcome ==
    [][\A h \in Handlers :
          ( /\ pc[h] = "m73" /\ Stepped(h)
            /\ ret[h].kind # "false"
            /\ ~(ret[h].kind = "raise"
                    /\ ret[h].exc \in {"OSError", "CatalogLoadError"}) )
              => resp'[h] = ScanResp]_vars

\* C15: the map a scan returns to manual_scan has, for every device the scan
\* discovered, the ip that this scan observed.
C15_ScanReport ==
    \A h \in Handlers :
        (pc[h] = "m73" /\ ret[h].kind = "map") =>
            \A k \in 1..Len(results[h]) :
                /\ results[h][k].id \in DOMAIN ret[h].map
                /\ ret[h].map[results[h][k].id].ip = results[h][k].ip

\* C17: while a thread is inside tinytuya.deviceScan the scanning flag is
\* set: no scan's finally clears it under another scan's discovery.
C17_FlagReflectsReality == InDiscovery # {} => scanning

\* the next step of a control request: resolution, then the device calls
ControlStep(h) == G25(h) \/ G26(h) \/ DStatus(h) \/ DOn(h) \/ DOff(h)

\* C16: while a discovery is in flight, every control request that has not
\* answered yet can take its next step (reload, lookup, status, turn_on or
\* turn_off): none of them waits for the discovery or for scan_lock.
C16_NotBlockedByDiscovery ==
    InDiscovery # {} =>
        \A h \in Handlers :
            (req[h].kind = "toggle" /\ pc[h] \notin {"idle", "done"})
                => ENABLED ControlStep(h)

\* a toggle that arrived under the one discovery there has been, which a
\* POST /scan is still running under scan_lock, has resolved its device and
\* read its status, and is about to send its command
C16_Witness ==
    /\ nscans = 1
    /\ scan_lock
    /\ \E s \in Handlers : s \in InDiscovery
    /\ \E h \in Handlers :
          /\ req[h].kind = "toggle" /\ req[h].busy
          /\ pc[h] \in {"d_on", "d_off"}
          /\ devcalls[h] = <<"status">>

\* C18: at most one POST /scan handler is inside `with scan_lock`, so at
\* most one is inside scan_devices, and it holds the lock all the while.
C18_ManualScansExclude ==
    /\ Cardinality({h \in Handlers : InWith(h)}) <= 1
    /\ \A h \in Handlers : InWith(h) => scan_lock

\* two POST /scan passed the locked() test of line 68 together: one is
\* inside scan_devices, the other waits at the with of line 71
C18_Witness ==
    \E h1 \in Handlers : \E h2 \in Handlers \ {h1} :
        /\ InScan(h1) /\ scan_lock
        /\ req[h2].kind = "scan" /\ pc[h2] = "m71"

============================================================================
